---- MODULE Spec2Model ----
(***************************************************************************)
(* Model of src/config.rs of PSDevBot: the configuration store built by    *)
(* Config::new from the process environment, its two lookups               *)
(* (Config::rooms_for, Config::all_rooms) and the case-insensitive         *)
(* username alias table (UsernameAliases::get / insert / deserialize).     *)
(*                                                                         *)
(* Encodings.  A Rust String whose characters matter (project names,       *)
(* alias keys and values, the port text) is a sequence of Unicode code     *)
(* points.  Room names, secrets, credentials and the serialised server URL *)
(* are TLA+ strings, since the code only compares and copies them.         *)
(* Option<T> is a sequence of length at most one: None is << >> and        *)
(* Some(x) is <<x>>.                                                       *)
(***************************************************************************)
EXTENDS Integers, Sequences, FiniteSets, TLC

VARIABLES pc, supplied, config, username_aliases, inserted, lastCall

vars == <<pc, supplied, config, username_aliases, inserted, lastCall>>

(* ------------------------------ bounds --------------------------------- *)

\* most room names one project entry lists, rooms and simple_rooms together
MaxRooms == 2

\* most UsernameAliases::insert calls in one run (blob entries included)
MaxInserts == 2

(* ------------------------------ Option --------------------------------- *)

None == << >>

Some(x) == <<x>>

is_none(o) == Len(o) = 0

unwrap_or(o, d) == IF Len(o) = 0 THEN d ELSE o[1]

Range(s) == {s[i] : i \in 1..Len(s)}

(* --------------------------- UniCase<String> ---------------------------- *)
(* A string is a sequence of Unicode code points.  UniCase::new keeps an   *)
(* ASCII string as Ascii and any other as Unicode; the two compare and     *)
(* hash alike, by Unicode case folding, of which the ASCII rule is the     *)
(* restriction to code points below 128.                                   *)

\* u8::to_ascii_lowercase: only 'A'..'Z' change
to_ascii_lowercase(c) == IF c >= 65 /\ c <= 90 THEN c + 32 ELSE c

\* the rows U+00B5..U+01C5 of the case folding table
CaseFold_00B5_01C5(c) ==
    CASE c = 181 -> <<956>>
      [] c >= 192 /\ c <= 214 -> <<c + 32>>
      [] c >= 216 /\ c <= 222 -> <<c + 32>>
      [] c = 223 -> <<115, 115>>
      [] c >= 256 /\ c <= 302 /\ c % 2 = 0 -> <<c + 1>>
      [] c = 304 -> <<105, 775>>
      [] c >= 306 /\ c <= 310 /\ c % 2 = 0 -> <<c + 1>>
      [] c >= 313 /\ c <= 327 /\ c % 2 = 1 -> <<c + 1>>
      [] c = 329 -> <<700, 110>>
      [] c >= 330 /\ c <= 374 /\ c % 2 = 0 -> <<c + 1>>
      [] c = 376 -> <<255>>
      [] c >= 377 /\ c <= 381 /\ c % 2 = 1 -> <<c + 1>>
      [] c = 383 -> <<115>>
      [] c = 385 -> <<595>>
      [] c >= 386 /\ c <= 388 /\ c % 2 = 0 -> <<c + 1>>
      [] c = 390 -> <<596>>
      [] c = 391 -> <<392>>
      [] c >= 393 /\ c <= 394 -> <<c + 205>>
      [] c = 395 -> <<396>>
      [] c = 398 -> <<477>>
      [] c = 399 -> <<601>>
      [] c = 400 -> <<603>>
      [] c = 401 -> <<402>>
      [] c = 403 -> <<608>>
      [] c = 404 -> <<611>>
      [] c = 406 -> <<617>>
      [] c = 407 -> <<616>>
      [] c = 408 -> <<409>>
      [] c = 412 -> <<623>>
      [] c = 413 -> <<626>>
      [] c = 415 -> <<629>>
      [] c >= 416 /\ c <= 420 /\ c % 2 = 0 -> <<c + 1>>
      [] c = 422 -> <<640>>
      [] c = 423 -> <<424>>
      [] c = 425 -> <<643>>
      [] c = 428 -> <<429>>
      [] c = 430 -> <<648>>
      [] c = 431 -> <<432>>
      [] c >= 433 /\ c <= 434 -> <<c + 217>>
      [] c >= 435 /\ c <= 437 /\ c % 2 = 1 -> <<c + 1>>
      [] c = 439 -> <<658>>
      [] c = 440 -> <<441>>
      [] c = 444 -> <<445>>
      [] c = 452 -> <<454>>
      [] c = 453 -> <<454>>
      [] OTHER -> <<c>>

\* the rows U+01C7..U+024E of the case folding table
CaseFold_01C7_024E(c) ==
    CASE c = 455 -> <<457>>
      [] c = 456 -> <<457>>
      [] c = 458 -> <<460>>
      [] c >= 459 /\ c <= 475 /\ c % 2 = 1 -> <<c + 1>>
      [] c >= 478 /\ c <= 494 /\ c % 2 = 0 -> <<c + 1>>
      [] c = 496 -> <<106, 780>>
      [] c = 497 -> <<499>>
      [] c >= 498 /\ c <= 500 /\ c % 2 = 0 -> <<c + 1>>
      [] c = 502 -> <<405>>
      [] c = 503 -> <<447>>
      [] c >= 504 /\ c <= 542 /\ c % 2 = 0 -> <<c + 1>>
      [] c = 544 -> <<414>>
      [] c >= 546 /\ c <= 562 /\ c % 2 = 0 -> <<c + 1>>
      [] c = 570 -> <<11365>>
      [] c = 571 -> <<572>>
      [] c = 573 -> <<410>>
      [] c = 574 -> <<11366>>
      [] c = 577 -> <<578>>
      [] c = 579 -> <<384>>
      [] c = 580 -> <<649>>
      [] c = 581 -> <<652>>
      [] c >= 582 /\ c <= 590 /\ c % 2 = 0 -> <<c + 1>>
      [] OTHER -> <<c>>

\* the rows U+0345..U+0345 of the case folding table
CaseFold_0345_0345(c) ==
    CASE c = 837 -> <<953>>
      [] OTHER -> <<c>>

\* the rows U+0370..U+03FF of the case folding table
CaseFold_0370_03FF(c) ==
    CASE c >= 880 /\ c <= 882 /\ c % 2 = 0 -> <<c + 1>>
      [] c = 886 -> <<887>>
      [] c = 895 -> <<1011>>
      [] c = 902 -> <<940>>
      [] c >= 904 /\ c <= 906 -> <<c + 37>>
      [] c = 908 -> <<972>>
      [] c >= 910 /\ c <= 911 -> <<c + 63>>
      [] c = 912 -> <<769, 953, 776>>
      [] c >= 913 /\ c <= 929 -> <<c + 32>>
      [] c >= 931 /\ c <= 939 -> <<c + 32>>
      [] c = 944 -> <<769, 965, 776>>
      [] c = 962 -> <<963>>
      [] c = 975 -> <<983>>
      [] c = 976 -> <<946>>
      [] c = 977 -> <<952>>
      [] c = 981 -> <<966>>
      [] c = 982 -> <<960>>
      [] c >= 984 /\ c <= 1006 /\ c % 2 = 0 -> <<c + 1>>
      [] c = 1008 -> <<954>>
      [] c = 1009 -> <<961>>
      [] c = 1012 -> <<952>>
      [] c = 1013 -> <<949>>
      [] c = 1015 -> <<1016>>
      [] c = 1017 -> <<1010>>
      [] c = 1018 -> <<1019>>
      [] c >= 1021 /\ c <= 1023 -> <<c - 130>>
      [] OTHER -> <<c>>

\* the rows U+0400..U+052E of the case folding table
CaseFold_0400_052E(c) ==
    CASE c >= 1024 /\ c <= 1039 -> <<c + 80>>
      [] c >= 1040 /\ c <= 1071 -> <<c + 32>>
      [] c >= 1120 /\ c <= 1152 /\ c % 2 = 0 -> <<c + 1>>
      [] c >= 1162 /\ c <= 1214 /\ c % 2 = 0 -> <<c + 1>>
      [] c = 1216 -> <<1231>>
      [] c >= 1217 /\ c <= 1229 /\ c % 2 = 1 -> <<c + 1>>
      [] c >= 1232 /\ c <= 1326 /\ c % 2 = 0 -> <<c + 1>>
      [] OTHER -> <<c>>

\* the rows U+0531..U+1CBF of the case folding table
CaseFold_0531_1CBF(c) ==
    CASE c >= 1329 /\ c <= 1366 -> <<c + 48>>
      [] c = 1415 -> <<1381, 1410>>
      [] c >= 4256 /\ c <= 4293 -> <<c + 7264>>
      [] c = 4295 -> <<11559>>
      [] c = 4301 -> <<11565>>
      [] c >= 5112 /\ c <= 5117 -> <<c - 8>>
      [] c = 7296 -> <<1074>>
      [] c = 7297 -> <<1076>>
      [] c = 7298 -> <<1086>>
      [] c >= 7299 /\ c <= 7300 -> <<c - 6210>>
      [] c = 7301 -> <<1090>>
      [] c = 7302 -> <<1098>>
      [] c = 7303 -> <<1123>>
      [] c = 7304 -> <<42571>>
      [] c = 7305 -> <<7306>>
      [] c >= 7312 /\ c <= 7354 -> <<c - 3008>>
      [] c >= 7357 /\ c <= 7359 -> <<c - 3008>>
      [] OTHER -> <<c>>

\* the rows U+1E00..U+1EFE of the case folding table
CaseFold_1E00_1EFE(c) ==
    CASE c >= 7680 /\ c <= 7828 /\ c % 2 = 0 -> <<c + 1>>
      [] c = 7830 -> <<104, 817>>
      [] c = 7831 -> <<116, 776>>
      [] c = 7832 -> <<119, 778>>
      [] c = 7833 -> <<121, 778>>
      [] c = 7834 -> <<97, 702>>
      [] c = 7835 -> <<7777>>
      [] c = 7838 -> <<115, 115>>
      [] c >= 7840 /\ c <= 7934 /\ c % 2 = 0 -> <<c + 1>>
      [] OTHER -> <<c>>

\* the rows U+1F08..U+1F9E of the case folding table
CaseFold_1F08_1F9E(c) ==
    CASE c >= 7944 /\ c <= 7951 -> <<c - 8>>
      [] c >= 7960 /\ c <= 7965 -> <<c - 8>>
      [] c >= 7976 /\ c <= 7983 -> <<c - 8>>
      [] c >= 7992 /\ c <= 7999 -> <<c - 8>>
      [] c >= 8008 /\ c <= 8013 -> <<c - 8>>
      [] c = 8016 -> <<965, 787>>
      [] c = 8018 -> <<768, 965, 787>>
      [] c = 8020 -> <<769, 965, 787>>
      [] c = 8022 -> <<834, 965, 787>>
      [] c = 8025 -> <<8017>>
      [] c = 8027 -> <<8019>>
      [] c = 8029 -> <<8021>>
      [] c = 8031 -> <<8023>>
      [] c >= 8040 /\ c <= 8047 -> <<c - 8>>
      [] c = 8064 -> <<7936, 953>>
      [] c = 8065 -> <<7937, 953>>
      [] c = 8066 -> <<7938, 953>>
      [] c = 8067 -> <<7939, 953>>
      [] c = 8068 -> <<7940, 953>>
      [] c = 8069 -> <<7941, 953>>
      [] c = 8070 -> <<7942, 953>>
      [] c = 8071 -> <<7943, 953>>
      [] c = 8072 -> <<7936, 953>>
      [] c = 8073 -> <<7937, 953>>
      [] c = 8074 -> <<7938, 953>>
      [] c = 8075 -> <<7939, 953>>
      [] c = 8076 -> <<7940, 953>>
      [] c = 8077 -> <<7941, 953>>
      [] c = 8078 -> <<7942, 953>>
      [] c = 8079 -> <<7943, 953>>
      [] c = 8080 -> <<7968, 953>>
      [] c = 8081 -> <<7969, 953>>
      [] c = 8082 -> <<7970, 953>>
      [] c = 8083 -> <<7971, 953>>
      [] c = 8084 -> <<7972, 953>>
      [] c = 8085 -> <<7973, 953>>
      [] c = 8086 -> <<7974, 953>>
      [] c = 8087 -> <<7975, 953>>
      [] c = 8088 -> <<7968, 953>>
      [] c = 8089 -> <<7969, 953>>
      [] c = 8090 -> <<7970, 953>>
      [] c = 8091 -> <<7971, 953>>
      [] c = 8092 -> <<7972, 953>>
      [] c = 8093 -> <<7973, 953>>
      [] c = 8094 -> <<7974, 953>>
      [] OTHER -> <<c>>

\* the rows U+1F9F..U+1FE9 of the case folding table
CaseFold_1F9F_1FE9(c) ==
    CASE c = 8095 -> <<7975, 953>>
      [] c = 8096 -> <<8032, 953>>
      [] c = 8097 -> <<8033, 953>>
      [] c = 8098 -> <<8034, 953>>
      [] c = 8099 -> <<8035, 953>>
      [] c = 8100 -> <<8036, 953>>
      [] c = 8101 -> <<8037, 953>>
      [] c = 8102 -> <<8038, 953>>
      [] c = 8103 -> <<8039, 953>>
      [] c = 8104 -> <<8032, 953>>
      [] c = 8105 -> <<8033, 953>>
      [] c = 8106 -> <<8034, 953>>
      [] c = 8107 -> <<8035, 953>>
      [] c = 8108 -> <<8036, 953>>
      [] c = 8109 -> <<8037, 953>>
      [] c = 8110 -> <<8038, 953>>
      [] c = 8111 -> <<8039, 953>>
      [] c = 8114 -> <<8048, 953>>
      [] c = 8115 -> <<945, 953>>
      [] c = 8116 -> <<940, 953>>
      [] c = 8118 -> <<945, 834>>
      [] c = 8119 -> <<953, 945, 834>>
      [] c >= 8120 /\ c <= 8121 -> <<c - 8>>
      [] c >= 8122 /\ c <= 8123 -> <<c - 74>>
      [] c = 8124 -> <<945, 953>>
      [] c = 8126 -> <<953>>
      [] c = 8130 -> <<8052, 953>>
      [] c = 8131 -> <<951, 953>>
      [] c = 8132 -> <<942, 953>>
      [] c = 8134 -> <<951, 834>>
      [] c = 8135 -> <<953, 951, 834>>
      [] c >= 8136 /\ c <= 8139 -> <<c - 86>>
      [] c = 8140 -> <<951, 953>>
      [] c = 8146 -> <<768, 953, 776>>
      [] c = 8147 -> <<769, 953, 776>>
      [] c = 8150 -> <<953, 834>>
      [] c = 8151 -> <<834, 953, 776>>
      [] c >= 8152 /\ c <= 8153 -> <<c - 8>>
      [] c >= 8154 /\ c <= 8155 -> <<c - 100>>
      [] c = 8162 -> <<768, 965, 776>>
      [] c = 8163 -> <<769, 965, 776>>
      [] c = 8164 -> <<961, 787>>
      [] c = 8166 -> <<965, 834>>
      [] c = 8167 -> <<834, 965, 776>>
      [] c >= 8168 /\ c <= 8169 -> <<c - 8>>
      [] OTHER -> <<c>>

\* the rows U+1FEA..U+1FFC of the case folding table
CaseFold_1FEA_1FFC(c) ==
    CASE c >= 8170 /\ c <= 8171 -> <<c - 112>>
      [] c = 8172 -> <<8165>>
      [] c = 8178 -> <<8060, 953>>
      [] c = 8179 -> <<969, 953>>
      [] c = 8180 -> <<974, 953>>
      [] c = 8182 -> <<969, 834>>
      [] c = 8183 -> <<953, 969, 834>>
      [] c >= 8184 /\ c <= 8185 -> <<c - 128>>
      [] c >= 8186 /\ c <= 8187 -> <<c - 126>>
      [] c = 8188 -> <<969, 953>>
      [] OTHER -> <<c>>

\* the rows U+2126..U+24CF of the case folding table
CaseFold_2126_24CF(c) ==
    CASE c = 8486 -> <<969>>
      [] c = 8490 -> <<107>>
      [] c = 8491 -> <<229>>
      [] c = 8498 -> <<8526>>
      [] c >= 8544 /\ c <= 8559 -> <<c + 16>>
      [] c = 8579 -> <<8580>>
      [] c >= 9398 /\ c <= 9423 -> <<c + 26>>
      [] OTHER -> <<c>>

\* the rows U+2C00..U+2CF2 of the case folding table
CaseFold_2C00_2CF2(c) ==
    CASE c >= 11264 /\ c <= 11311 -> <<c + 48>>
      [] c = 11360 -> <<11361>>
      [] c = 11362 -> <<619>>
      [] c = 11363 -> <<7549>>
      [] c = 11364 -> <<637>>
      [] c >= 11367 /\ c <= 11371 /\ c % 2 = 1 -> <<c + 1>>
      [] c = 11373 -> <<593>>
      [] c = 11374 -> <<625>>
      [] c = 11375 -> <<592>>
      [] c = 11376 -> <<594>>
      [] c = 11378 -> <<11379>>
      [] c = 11381 -> <<11382>>
      [] c >= 11390 /\ c <= 11391 -> <<c - 10815>>
      [] c >= 11392 /\ c <= 11490 /\ c % 2 = 0 -> <<c + 1>>
      [] c >= 11499 /\ c <= 11501 /\ c % 2 = 1 -> <<c + 1>>
      [] c = 11506 -> <<11507>>
      [] OTHER -> <<c>>

\* the rows U+A640..U+ABBF of the case folding table
CaseFold_A640_ABBF(c) ==
    CASE c >= 42560 /\ c <= 42604 /\ c % 2 = 0 -> <<c + 1>>
      [] c >= 42624 /\ c <= 42650 /\ c % 2 = 0 -> <<c + 1>>
      [] c >= 42786 /\ c <= 42798 /\ c % 2 = 0 -> <<c + 1>>
      [] c >= 42802 /\ c <= 42862 /\ c % 2 = 0 -> <<c + 1>>
      [] c >= 42873 /\ c <= 42875 /\ c % 2 = 1 -> <<c + 1>>
      [] c = 42877 -> <<7545>>
      [] c >= 42878 /\ c <= 42886 /\ c % 2 = 0 -> <<c + 1>>
      [] c = 42891 -> <<42892>>
      [] c = 42893 -> <<613>>
      [] c >= 42896 /\ c <= 42898 /\ c % 2 = 0 -> <<c + 1>>
      [] c >= 42902 /\ c <= 42920 /\ c % 2 = 0 -> <<c + 1>>
      [] c = 42922 -> <<614>>
      [] c = 42923 -> <<604>>
      [] c = 42924 -> <<609>>
      [] c = 42925 -> <<620>>
      [] c = 42926 -> <<618>>
      [] c = 42928 -> <<670>>
      [] c = 42929 -> <<647>>
      [] c = 42930 -> <<669>>
      [] c = 42931 -> <<43859>>
      [] c >= 42932 /\ c <= 42946 /\ c % 2 = 0 -> <<c + 1>>
      [] c = 42948 -> <<42900>>
      [] c = 42949 -> <<642>>
      [] c = 42950 -> <<7566>>
      [] c >= 42951 /\ c <= 42953 /\ c % 2 = 1 -> <<c + 1>>
      [] c = 42955 -> <<612>>
      [] c >= 42956 /\ c <= 42970 /\ c % 2 = 0 -> <<c + 1>>
      [] c = 42972 -> <<411>>
      [] c = 42997 -> <<42998>>
      [] c >= 43888 /\ c <= 43967 -> <<c - 38864>>
      [] OTHER -> <<c>>

\* the rows U+FB00..U+FF3A of the case folding table
CaseFold_FB00_FF3A(c) ==
    CASE c = 64256 -> <<102, 102>>
      [] c = 64257 -> <<102, 105>>
      [] c = 64258 -> <<102, 108>>
      [] c = 64259 -> <<105, 102, 102>>
      [] c = 64260 -> <<108, 102, 102>>
      [] c = 64261 -> <<115, 116>>
      [] c = 64262 -> <<115, 116>>
      [] c = 64275 -> <<1396, 1398>>
      [] c = 64276 -> <<1396, 1381>>
      [] c = 64277 -> <<1396, 1387>>
      [] c = 64278 -> <<1406, 1398>>
      [] c = 64279 -> <<1396, 1389>>
      [] c >= 65313 /\ c <= 65338 -> <<c + 32>>
      [] OTHER -> <<c>>

\* the rows U+10400..U+1E921 of the case folding table
CaseFold_10400_1E921(c) ==
    CASE c >= 66560 /\ c <= 66599 -> <<c + 40>>
      [] c >= 66736 /\ c <= 66771 -> <<c + 40>>
      [] c >= 66928 /\ c <= 66938 -> <<c + 39>>
      [] c >= 66940 /\ c <= 66954 -> <<c + 39>>
      [] c >= 66956 /\ c <= 66962 -> <<c + 39>>
      [] c >= 66964 /\ c <= 66965 -> <<c + 39>>
      [] c >= 68736 /\ c <= 68786 -> <<c + 64>>
      [] c >= 68944 /\ c <= 68965 -> <<c + 32>>
      [] c >= 71840 /\ c <= 71871 -> <<c + 32>>
      [] c >= 93760 /\ c <= 93791 -> <<c + 32>>
      [] c >= 93856 /\ c <= 93880 -> <<c + 27>>
      [] c >= 125184 /\ c <= 125217 -> <<c + 34>>
      [] OTHER -> <<c>>

\* the case folding of one code point as unicase's Fold iterator yields it:
\* the common (C) and full (F) rows of Unicode's CaseFolding table, except
\* that a folding of three code points comes out third code point first
\* (U+FB03 gives "iff"), which is how the sixteen such rows are written above
CaseFold(c) ==
    IF c < 128 THEN <<to_ascii_lowercase(c)>>
    ELSE IF c <= 453 THEN CaseFold_00B5_01C5(c)
    ELSE IF c <= 590 THEN CaseFold_01C7_024E(c)
    ELSE IF c <= 837 THEN CaseFold_0345_0345(c)
    ELSE IF c <= 1023 THEN CaseFold_0370_03FF(c)
    ELSE IF c <= 1326 THEN CaseFold_0400_052E(c)
    ELSE IF c <= 7359 THEN CaseFold_0531_1CBF(c)
    ELSE IF c <= 7934 THEN CaseFold_1E00_1EFE(c)
    ELSE IF c <= 8094 THEN CaseFold_1F08_1F9E(c)
    ELSE IF c <= 8169 THEN CaseFold_1F9F_1FE9(c)
    ELSE IF c <= 8188 THEN CaseFold_1FEA_1FFC(c)
    ELSE IF c <= 9423 THEN CaseFold_2126_24CF(c)
    ELSE IF c <= 11506 THEN CaseFold_2C00_2CF2(c)
    ELSE IF c <= 43967 THEN CaseFold_A640_ABBF(c)
    ELSE IF c <= 65338 THEN CaseFold_FB00_FF3A(c)
    ELSE IF c <= 125217 THEN CaseFold_10400_1E921(c)
    ELSE <<c>>

\* the case fold of a string: the foldings of its code points, in order
RECURSIVE Fold(_)
Fold(s) == IF s = << >> THEN << >> ELSE CaseFold(Head(s)) \o Fold(Tail(s))

\* UniCase equality: the two strings fold to the same sequence
UniCaseEq(a, b) == Fold(a) = Fold(b)

RECURSIVE SumBytes(_)
SumBytes(s) == IF s = << >> THEN 0 ELSE Head(s) + SumBytes(Tail(s))

\* UniCase's Hash feeds the folded string to the hasher; the hasher itself
\* is a small lossy function here, so distinct keys can share a hash
UniCaseHash(s) == SumBytes(Fold(s)) % 7

(* --------------------------- UsernameAliases ---------------------------- *)

\* raw_entry().from_hash(hash, |k| *k == unicase): the stored keys that match
Probe(map, key) ==
    {k \in DOMAIN map : UniCaseHash(k) = UniCaseHash(key) /\ UniCaseEq(k, key)}

\* UsernameAliases::get: the stored value, or the query itself
get(map, key) ==
    IF Probe(map, key) = {} THEN key
    ELSE map[CHOOSE k \in Probe(map, key) : TRUE]

\* UsernameAliases::insert, HashMap::insert on the UniCase key: an equal
\* key keeps the stored key and takes the new value
insert(map, key, value) ==
    IF Probe(map, key) # {}
    THEN [map EXCEPT ![CHOOSE k \in Probe(map, key) : TRUE] = value]
    ELSE map @@ (key :> value)

\* UsernameAliases::default()
EmptyAliases == << >>

\* MapVisitor::visit_map: insert every entry of the blob, in order
RECURSIVE visit_map(_, _)
visit_map(map, entries) ==
    IF entries = << >> THEN map
    ELSE visit_map(insert(map, Head(entries)[1], Head(entries)[2]), Tail(entries))

(* ------------------------- Config lookups ------------------------------ *)

\* the RoomConfigurationRef of a configured project
FoundRef(cfg, key) ==
    [rooms        |-> cfg.room_configuration[key].rooms,
     simple_rooms |-> cfg.room_configuration[key].simple_rooms,
     secret       |-> unwrap_or(cfg.room_configuration[key].secret, cfg.secret)]

\* the RoomConfigurationRef of a project the map does not hold
FallbackRef(cfg) ==
    [rooms        |-> IF is_none(cfg.default_room_name) THEN << >>
                      ELSE <<cfg.default_room_name[1]>>,
     simple_rooms |-> << >>,
     secret       |-> cfg.secret]

\* a lookup that matches project names ignoring letter case
rooms_for_ignore_case(cfg, name) ==
    IF \E k \in DOMAIN cfg.room_configuration : UniCaseEq(k, name)
    THEN FoundRef(cfg, CHOOSE k \in DOMAIN cfg.room_configuration : UniCaseEq(k, name))
    ELSE FallbackRef(cfg)

\* a lookup that never reads the project's secret override
rooms_for_global_secret(cfg, name) ==
    IF name \in DOMAIN cfg.room_configuration
    THEN [FoundRef(cfg, name) EXCEPT !.secret = cfg.secret]
    ELSE FallbackRef(cfg)

\* a lookup that sends a project with no rooms of its own to the default room
rooms_for_default_when_empty(cfg, name) ==
    IF name \in DOMAIN cfg.room_configuration
    THEN IF FoundRef(cfg, name).rooms = << >>
         THEN [FoundRef(cfg, name) EXCEPT !.rooms = FallbackRef(cfg).rooms]
         ELSE FoundRef(cfg, name)
    ELSE FallbackRef(cfg)

\* a lookup whose missing override becomes the empty secret
rooms_for_placeholder_secret(cfg, name) ==
    IF name \in DOMAIN cfg.room_configuration
    THEN [FoundRef(cfg, name) EXCEPT
            !.secret = unwrap_or(cfg.room_configuration[name].secret, "")]
    ELSE FallbackRef(cfg)

\* Config::rooms_for: exact-match lookup, then the default-room fallback
rooms_for(cfg, name) ==
    IF name \in DOMAIN cfg.room_configuration
    THEN FoundRef(cfg, name)
    ELSE FallbackRef(cfg)

\* values().flat_map(|r| r.rooms.iter().chain(&r.simple_rooms)), the map's
\* values taken in some iteration order
RECURSIVE flat_map_rooms(_, _)
flat_map_rooms(rc, keys) ==
    IF keys = {} THEN << >>
    ELSE LET k == CHOOSE x \in keys : TRUE
         IN  rc[k].rooms \o rc[k].simple_rooms \o flat_map_rooms(rc, keys \ {k})

RECURSIVE flat_map_rooms_only(_, _)
flat_map_rooms_only(rc, keys) ==
    IF keys = {} THEN << >>
    ELSE LET k == CHOOSE x \in keys : TRUE
         IN  rc[k].rooms \o flat_map_rooms_only(rc, keys \ {k})

\* a collection that leaves the simple_rooms out
all_rooms_without_simple(cfg) ==
    Range(flat_map_rooms_only(cfg.room_configuration, DOMAIN cfg.room_configuration)
          \o cfg.default_room_name)

\* a collection that leaves the default room out
all_rooms_without_default(cfg) ==
    Range(flat_map_rooms(cfg.room_configuration, DOMAIN cfg.room_configuration))

\* Config::all_rooms: the chained iterator collected into a HashSet
all_rooms(cfg) ==
    Range(flat_map_rooms(cfg.room_configuration, DOMAIN cfg.room_configuration)
          \o cfg.default_room_name)

(* --------------------------- Config::new ------------------------------- *)

RECURSIVE DigitsValue(_, _)
DigitsValue(s, acc) ==
    IF s = << >> THEN acc
    ELSE DigitsValue(Tail(s), acc * 10 + (Head(s) - 48))

\* str::parse::<u16>: an optional '+', then one or more digits, at most 65535
ParseU16(s) ==
    LET digits == IF Len(s) > 1 /\ s[1] = 43 THEN Tail(s) ELSE s
    IN  IF digits = << >> \/ \E i \in 1..Len(digits) : digits[i] < 48 \/ digits[i] > 57
        THEN [ok |-> FALSE, value |-> 0]
        ELSE IF DigitsValue(digits, 0) > 65535
             THEN [ok |-> FALSE, value |-> 0]
             ELSE [ok |-> TRUE, value |-> DigitsValue(digits, 0)]

DefaultPort == 3030

\* PSDEVBOT_SERVER is given by what Url::parse makes of its text: an error,
\* or the parsed Url, written in its serialised form
InvalidUrl == [valid |-> FALSE, value |-> ""]

Url(serialised) == [valid |-> TRUE, value |-> serialised]

\* the value of `config` while no Config exists; the test's base_config()
base_config ==
    [server |-> "wss://localhost/showdown/websocket", user |-> "", password |-> "",
     secret |-> "", port |-> DefaultPort, default_room_name |-> None,
     room_configuration |-> << >>, github_api |-> FALSE]

\* Config::new ending without a Config: "err" is Err(..), "panic" a panic
Failed(outcome) == [outcome |-> outcome, config |-> base_config, aliases |-> EmptyAliases]

\* the `?` exits of Config::new: a required variable missing or unparsable
RequiredMissing(env) ==
    \/ is_none(env.server)
    \/ ~env.server[1].valid
    \/ is_none(env.user)
    \/ is_none(env.password)
    \/ is_none(env.secret)
    \/ (~is_none(env.port) /\ ~ParseU16(env.port[1]).ok)

\* the optional part of Config::new, from PSDEVBOT_GITHUB_API_USER on
Finish(env) ==
    IF ~is_none(env.username_aliases) /\ ~env.username_aliases[1].valid
    THEN Failed("panic")
    ELSE [outcome |-> "ok",
          config  |->
            [server   |-> env.server[1].value,
             user     |-> env.user[1],
             password |-> env.password[1],
             secret   |-> env.secret[1],
             port     |-> IF is_none(env.port) THEN DefaultPort
                          ELSE ParseU16(env.port[1]).value,
             default_room_name  |-> env.room,
             room_configuration |->
                 IF is_none(env.project_configuration) THEN << >>
                 ELSE env.project_configuration[1].value,
             github_api |-> ~is_none(env.github_api_user)
                            /\ ~is_none(env.github_api_password)],
          aliases |-> IF is_none(env.username_aliases) THEN EmptyAliases
                      ELSE visit_map(EmptyAliases, env.username_aliases[1].value)]

\* a construction without the "at least one of" check
Config_new_no_check(env) ==
    IF RequiredMissing(env) THEN Failed("err")
    ELSE IF ~is_none(env.project_configuration) /\ ~env.project_configuration[1].valid
    THEN Failed("panic")
    ELSE Finish(env)

\* Config::new, in the order the code reads the environment
Config_new(env) ==
    IF RequiredMissing(env) THEN Failed("err")
    ELSE IF ~is_none(env.project_configuration) /\ ~env.project_configuration[1].valid
    THEN Failed("panic")
    ELSE IF is_none(env.room) /\ is_none(env.project_configuration) THEN Failed("panic")
    ELSE Finish(env)

(* ------------------------------ inputs --------------------------------- *)

\* project names "P", "p" (configured) and "Q" (never configured)
ProjectNames == {<<80>>, <<112>>}

QueryNames == ProjectNames \cup {<<81>>}

RoomNames == {"a", "b"}

DefaultRoomNames == {"a", "lobby"}

GlobalSecrets == {"", "g"}

SecretOverrides == {None, Some(""), Some("s1")}

RoomLists == UNION {[1..n -> RoomNames] : n \in 0..MaxRooms}

\* the RoomConfiguration values the project blob can hold
RoomConfigurations ==
    {[rooms |-> r, simple_rooms |-> s, secret |-> o] :
        r \in RoomLists, s \in RoomLists, o \in SecretOverrides}

Entries == {e \in RoomConfigurations : Len(e.rooms) + Len(e.simple_rooms) <= MaxRooms}

\* the parsed HashMap<String, RoomConfiguration> values
ProjectMaps == UNION {[D -> Entries] : D \in SUBSET ProjectNames}

InvalidJson == [valid |-> FALSE, value |-> << >>]

Json(v) == [valid |-> TRUE, value |-> v]

\* alias keys "K", "k", the Kelvin sign U+212A, "Ss", U+00DF (sharp s), "[",
\* and "ffi", "iff" and the ligature U+FB03, whose folding has three code
\* points; display names "x", "y"
Keys == {<<75>>, <<107>>, <<8490>>, <<83, 115>>, <<223>>, <<91>>,
         <<102, 102, 105>>, <<105, 102, 102>>, <<64259>>}

\* the keys looked up: the alias keys and "{", which is '[' + 32 and no letter
QueryKeys == Keys \cup {<<123>>}

Values == {<<120>>, <<121>>}

AliasEntries == Keys \X Values

AliasBlobs == UNION {[1..n -> AliasEntries] : n \in 0..MaxInserts}

\* port texts "80", "+80", "8x", "70000", ""
PortTexts == {<<56, 48>>, <<43, 56, 48>>, <<56, 120>>, <<55, 48, 48, 48, 48>>, << >>}

\* what Url::parse makes of the PSDEVBOT_SERVER texts supplied
Servers ==
    {InvalidUrl, Url("wss://localhost/showdown/websocket"),
     Url("ws://example.com:8000/showdown/websocket"), Url("wss://localhost/")}

Env(server, user, password, secret, port, room, projects, gh_user, gh_password, aliases) ==
    [server |-> server, user |-> user, password |-> password, secret |-> secret,
     port |-> port, room |-> room, project_configuration |-> projects,
     github_api_user |-> gh_user, github_api_password |-> gh_password,
     username_aliases |-> aliases]

\* environments that vary the required variables, with every combination of
\* PSDEVBOT_ROOM and PSDEVBOT_PROJECT_CONFIGURATION being present or absent
ScalarEnvs ==
    {Env(sv, u, pw, se, po, ro, pr, None, None, None) :
        sv \in {None} \cup {Some(u) : u \in Servers},
        u  \in {None, Some("bot")},
        pw \in {None, Some("hunter2")},
        se \in {None} \cup {Some(g) : g \in GlobalSecrets},
        po \in {None} \cup {Some(t) : t \in PortTexts},
        ro \in {None, Some("lobby")},
        pr \in {None, Some(InvalidJson), Some(Json(<< >>))}}

\* environments with the required variables set, varying the global secret,
\* the default room and the project blob
BlobEnvs ==
    {Env(Some(Url("wss://localhost/showdown/websocket")), Some("bot"), Some("hunter2"),
         Some(se), None, ro, pr, None, None, None) :
        se \in GlobalSecrets,
        ro \in {None} \cup {Some(r) : r \in DefaultRoomNames},
        pr \in {None} \cup {Some(Json(m)) : m \in ProjectMaps}}

\* environments with the required variables set, varying the GitHub
\* credentials and the alias blob
OptionalEnvs ==
    {Env(Some(Url("wss://localhost/showdown/websocket")), Some("bot"), Some("hunter2"),
         Some("g"), Some(<<56, 48>>), Some("lobby"), None, gh[1], gh[2], al) :
        gh \in {<<None, None>>, <<Some("user"), None>>, <<Some("user"), Some("token")>>},
        al \in {None, Some(InvalidJson),
                Some(Json(<< <<(<<65>>), (<<120>>)>>, <<(<<97>>), (<<121>>)>> >>))}}

Envs == ScalarEnvs \cup BlobEnvs \cup OptionalEnvs

(* ------------------------------ state ---------------------------------- *)

NoCall == [op |-> "none"]

Init ==
    /\ pc = "start"
    /\ supplied = [room |-> FALSE, projects |-> FALSE]
    /\ config = base_config
    /\ username_aliases = EmptyAliases
    /\ inserted = << >>
    /\ lastCall = NoCall

\* Config::new() on one process environment
New ==
    /\ pc = "start"
    /\ \E env \in Envs :
        LET r == Config_new(env)
        IN  /\ pc' = r.outcome
            /\ config' = r.config
            /\ username_aliases' = r.aliases
            /\ inserted' = IF r.outcome = "ok" /\ ~is_none(env.username_aliases)
                           THEN env.username_aliases[1].value ELSE << >>
            /\ supplied' = [room     |-> ~is_none(env.room),
                            projects |-> ~is_none(env.project_configuration)]
            /\ lastCall' = [op |-> "new"]

\* config.rooms_for(name)
RoomsFor ==
    /\ pc = "ok"
    /\ \E name \in QueryNames :
        lastCall' = [op |-> "rooms_for", arg |-> name, ret |-> rooms_for(config, name)]
    /\ UNCHANGED <<pc, supplied, config, username_aliases, inserted>>

\* config.all_rooms()
AllRooms ==
    /\ pc = "ok"
    /\ lastCall' = [op |-> "all_rooms", ret |-> all_rooms(config)]
    /\ UNCHANGED <<pc, supplied, config, username_aliases, inserted>>

Next == New \/ RoomsFor \/ AllRooms

Spec == Init /\ [][Next]_vars

(* ----------------- the alias table on its own --------------------------- *)

\* UsernameAliases::default()
AliasesDefault ==
    /\ pc = "start"
    /\ pc' = "aliases"
    /\ username_aliases' = EmptyAliases
    /\ inserted' = << >>
    /\ lastCall' = [op |-> "default"]
    /\ UNCHANGED <<supplied, config>>

\* <UsernameAliases as Deserialize>::deserialize on a map of entries
AliasesDeserialize ==
    /\ pc = "start"
    /\ \E blob \in AliasBlobs :
        /\ username_aliases' = visit_map(EmptyAliases, blob)
        /\ inserted' = blob
    /\ pc' = "aliases"
    /\ lastCall' = [op |-> "deserialize"]
    /\ UNCHANGED <<supplied, config>>

\* username_aliases.insert(key, value)
Insert ==
    /\ pc = "aliases"
    /\ Len(inserted) < MaxInserts
    /\ \E key \in Keys, value \in Values :
        /\ username_aliases' = insert(username_aliases, key, value)
        /\ inserted' = Append(inserted, <<key, value>>)
        /\ lastCall' = [op |-> "insert", arg |-> key]
    /\ UNCHANGED <<pc, supplied, config>>

\* username_aliases.get(key)
Get ==
    /\ pc = "aliases"
    /\ \E key \in QueryKeys :
        lastCall' = [op |-> "get", arg |-> key, ret |-> get(username_aliases, key)]
    /\ UNCHANGED <<pc, supplied, config, username_aliases, inserted>>

NextAliases == AliasesDefault \/ AliasesDeserialize \/ Insert \/ Get

SpecAliases == Init /\ [][NextAliases]_vars

(* ------------------------------ claims --------------------------------- *)

\* the entry the project map holds for the project of the last rooms_for call
CalledEntry == config.room_configuration[lastCall.arg]

CalledKnown ==
    /\ pc = "ok"
    /\ lastCall.op = "rooms_for"
    /\ lastCall.arg \in DOMAIN config.room_configuration

CalledUnknown ==
    /\ pc = "ok"
    /\ lastCall.op = "rooms_for"
    /\ \A k \in DOMAIN config.room_configuration : k # lastCall.arg

\* C1: rooms_for of a project name that is no key of the project map (a name
\* that differs from a key only in letter case included) is the default room
\* alone, or no room when none is configured, no simple room, and the
\* global secret.
C1_AbsentProjectFallsBack ==
    CalledUnknown =>
        /\ lastCall.ret.rooms =
             (IF config.default_room_name = None THEN << >>
              ELSE <<config.default_room_name[1]>>)
        /\ lastCall.ret.simple_rooms = << >>
        /\ lastCall.ret.secret = config.secret

\* "p" is asked for while only "P" is configured, with rooms of its own
C1_Witness ==
    /\ CalledUnknown
    /\ lastCall.arg = <<112>>
    /\ DOMAIN config.room_configuration = {<<80>>}
    /\ config.room_configuration[<<80>>].rooms = <<"b">>
    /\ config.room_configuration[<<80>>].secret = Some("s1")
    /\ config.default_room_name = Some("lobby")
    /\ lastCall.ret.rooms = <<"lobby">>

\* C2: rooms_for of a configured project returns the entry's secret override
\* when it has one and the global secret when it has none, whatever the
\* global secret and the default room are.
C2_OverrideWins ==
    CalledKnown =>
        /\ CalledEntry.secret # None => lastCall.ret.secret = CalledEntry.secret[1]
        /\ CalledEntry.secret = None => lastCall.ret.secret = config.secret

C2_Witness ==
    /\ CalledKnown
    /\ CalledEntry.secret = Some("s1")
    /\ config.secret = "g"
    /\ config.default_room_name # None
    /\ lastCall.ret.secret = "s1"

\* every room name a configuration of the model can mention
AllRoomNames == RoomNames \cup DefaultRoomNames

\* C3: all_rooms() holds a room exactly when some project lists it in rooms
\* or simple_rooms or it is the default room; being a set it holds each once.
C3_AllRoomsIsUnion ==
    (pc = "ok" /\ lastCall.op = "all_rooms") =>
        /\ lastCall.ret \subseteq AllRoomNames
        /\ \A r \in AllRoomNames :
             r \in lastCall.ret <=>
                \/ \E p \in DOMAIN config.room_configuration :
                     \/ \E i \in 1..Len(config.room_configuration[p].rooms) :
                          config.room_configuration[p].rooms[i] = r
                     \/ \E i \in 1..Len(config.room_configuration[p].simple_rooms) :
                          config.room_configuration[p].simple_rooms[i] = r
                \/ config.default_room_name = Some(r)

\* "a" is a room of "P", a simple room of "p" and the default room; "b" is
\* listed as a simple room only
C3_Witness ==
    /\ pc = "ok"
    /\ lastCall.op = "all_rooms"
    /\ DOMAIN config.room_configuration = ProjectNames
    /\ config.room_configuration[<<80>>].rooms = <<"a", "a">>
    /\ config.room_configuration[<<112>>].simple_rooms = <<"a", "b">>
    /\ config.default_room_name = Some("a")
    /\ lastCall.ret = {"a", "b"}

\* C7: rooms_for of a configured project returns the entry's rooms and
\* simple_rooms as configured and never the default room in their place; an
\* entry with no rooms at all and a secret override resolves to no rooms and
\* that override.
C7_ConfiguredRoomsVerbatim ==
    CalledKnown =>
        /\ lastCall.ret.rooms = CalledEntry.rooms
        /\ lastCall.ret.simple_rooms = CalledEntry.simple_rooms
        /\ (CalledEntry.rooms = << >> /\ CalledEntry.simple_rooms = << >>
            /\ CalledEntry.secret # None)
             => lastCall.ret = [rooms |-> << >>, simple_rooms |-> << >>,
                                secret |-> CalledEntry.secret[1]]

C7_Witness ==
    /\ CalledKnown
    /\ CalledEntry = [rooms |-> << >>, simple_rooms |-> << >>, secret |-> Some("s1")]
    /\ config.default_room_name = Some("lobby")
    /\ lastCall.ret = [rooms |-> << >>, simple_rooms |-> << >>, secret |-> "s1"]

\* C8 as stated: the secret rooms_for returns is never the empty string.
C8_SecretNeverEmpty ==
    (pc = "ok" /\ lastCall.op = "rooms_for") => lastCall.ret.secret # ""

\* C8 amended: the secret rooms_for returns is always one of the two
\* configured secrets, the project's override or the global secret, and it
\* is empty only when that configured secret is the empty string.
C8_SecretIsOverrideOrGlobal ==
    (pc = "ok" /\ lastCall.op = "rooms_for") =>
        lastCall.ret.secret \in
            {config.secret} \cup
            (IF lastCall.arg \in DOMAIN config.room_configuration
             THEN Range(CalledEntry.secret) ELSE {})

\* PSDEVBOT_SECRET was set to the empty string and a project without an
\* override is asked for
C8_Witness ==
    /\ CalledKnown
    /\ CalledEntry.secret = None
    /\ config.secret = ""
    /\ lastCall.ret.secret = ""

\* C9: Config::new returns a Config only if PSDEVBOT_ROOM or
\* PSDEVBOT_PROJECT_CONFIGURATION was supplied; with neither, construction
\* ends in an error or a panic whatever the other variables hold.
C9_NeedsRoomOrProjects ==
    /\ pc = "ok" => (supplied.room \/ supplied.projects)
    /\ (lastCall.op = "new" /\ ~supplied.room /\ ~supplied.projects)
         => pc \in {"err", "panic"}

\* every required variable was fine and the missing pair alone stopped it
C9_Witness ==
    /\ lastCall.op = "new"
    /\ ~supplied.room
    /\ ~supplied.projects
    /\ pc = "panic"

\* C10: every room rooms_for returns, for a configured project or not, in
\* rooms or simple_rooms, is a member of all_rooms().
C10_RoutedRoomsAreJoined ==
    (pc = "ok" /\ lastCall.op = "rooms_for") =>
        \A r \in Range(lastCall.ret.rooms) \cup Range(lastCall.ret.simple_rooms) :
            r \in all_rooms(config)

\* an unconfigured project is routed to a default room no project lists
C10_Witness ==
    /\ CalledUnknown
    /\ lastCall.ret.rooms = <<"lobby">>
    /\ DOMAIN config.room_configuration # {}
    /\ all_rooms(config) = {"a", "b", "lobby"}

(* ---------------------- claims on the alias table ----------------------- *)
(* Two strings are case-insensitively equal when their Unicode full case   *)
(* foldings (CaseFolding table, rows C and F, code points in the table's   *)
(* order) are the same string.  The table the program folds by holds the   *)
(* same rows; the sixteen foldings of three code points are the ones it    *)
(* reads in another order.                                                 *)

\* Unicode's full case folding of one code point
FullCaseFolding(c) ==
    CASE c = 912 -> <<953, 776, 769>>
      [] c = 944 -> <<965, 776, 769>>
      [] c = 8018 -> <<965, 787, 768>>
      [] c = 8020 -> <<965, 787, 769>>
      [] c = 8022 -> <<965, 787, 834>>
      [] c = 8119 -> <<945, 834, 953>>
      [] c = 8135 -> <<951, 834, 953>>
      [] c = 8146 -> <<953, 776, 768>>
      [] c = 8147 -> <<953, 776, 769>>
      [] c = 8151 -> <<953, 776, 834>>
      [] c = 8162 -> <<965, 776, 768>>
      [] c = 8163 -> <<965, 776, 769>>
      [] c = 8167 -> <<965, 776, 834>>
      [] c = 8183 -> <<969, 834, 953>>
      [] c = 64259 -> <<102, 102, 105>>
      [] c = 64260 -> <<102, 102, 108>>
      [] OTHER -> CaseFold(c)

\* the case-folded form of a string
RECURSIVE CaseFolded(_)
CaseFolded(s) ==
    IF s = << >> THEN << >> ELSE FullCaseFolding(Head(s)) \o CaseFolded(Tail(s))

\* the positions of the insert calls whose key case-insensitively equals s
InsertsOf(s) ==
    {i \in 1..Len(inserted) : CaseFolded(inserted[i][1]) = CaseFolded(s)}

LastInsertOf(s) == CHOOSE i \in InsertsOf(s) : \A j \in InsertsOf(s) : j <= i

\* C4: get(S) of a query that case-insensitively equals the key of some
\* insert returns the value of the most recent such insert, whatever the
\* letter case of S and of the inserted keys.
C4_GetReturnsLatestInsert ==
    pc \in {"aliases", "ok"} =>
        \A s \in QueryKeys :
            InsertsOf(s) # {} =>
                get(username_aliases, s) = inserted[LastInsertOf(s)][2]

\* C5: get(S) of a query that case-insensitively equals no inserted key
\* returns S itself, in the letter case it was given.
C5_GetUnknownReturnsQuery ==
    pc \in {"aliases", "ok"} =>
        \A s \in QueryKeys :
            InsertsOf(s) = {} => get(username_aliases, s) = s

\* C6: no two stored keys are case-insensitively equal, the table holds one
\* entry per distinct case-folded key inserted, and each entry holds the
\* value of the latest insert of its case-folded key.
C6_OneEntryPerFoldedKey ==
    pc \in {"aliases", "ok"} =>
        /\ \A k1, k2 \in DOMAIN username_aliases :
             CaseFolded(k1) = CaseFolded(k2) => k1 = k2
        /\ Cardinality(DOMAIN username_aliases)
             = Cardinality({CaseFolded(inserted[i][1]) : i \in 1..Len(inserted)})
        /\ \A k \in DOMAIN username_aliases :
             /\ InsertsOf(k) # {}
             /\ username_aliases[k] = inserted[LastInsertOf(k)][2]

====
